---- MODULE Spec2Model ----
(***************************************************************************)
(* Model of mcp-gh-project: the tool dispatcher handle_call_tool           *)
(* (server.py) and the GitHub Projects v2 client GitHubClient              *)
(* (github_client.py).                                                     *)
(*                                                                         *)
(* Every coroutine is cut at its only suspension point, the await of       *)
(* client.post in _execute_query: the part that runs before it decides     *)
(* between raising and issuing a request (x_request), the part that runs   *)
(* after it turns the response into a value or an exception (x_result).    *)
(***************************************************************************)
EXTENDS Integers, Sequences, FiniteSets, TLC

VARIABLES
    env,        \* os.environ["GITHUB_TOKEN"] (None when unset)
    client,     \* per invocation: the token passed to GitHubClient() and what it built
    remote,     \* GitHub's side: the items of project P1, by item id
    pc,         \* per invocation: "idle", "awaiting" (suspended in post), "done"
    call,       \* per invocation: the (name, arguments) handle_call_tool got
    request,    \* per invocation: the GraphQL request it issued, or NoRequest
    response,   \* per invocation: the response its request got, or NoResponse
    sent,       \* per invocation: how many requests it has issued
    outcome,    \* per invocation: what the client method returned or raised
    result      \* per invocation: the list handle_call_tool returned

vars == <<env, client, remote, pc, call, request, response, sent, outcome, result>>

----------------------------------------------------------------------------
(* Python / JSON values.  A dict is a function from its keys; every other  *)
(* value is a record tagged by its type.                                   *)

None == [t |-> "None"]
Str(s) == [t |-> "str", s |-> s]
Num(n) == [t |-> "int", n |-> n]
Bool(b) == [t |-> "bool", b |-> b]
List(l) == [t |-> "list", l |-> l]
EmptyDict == [k \in {} |-> None]

IsDict(v) == "t" \notin DOMAIN v
IsStr(v) == ~IsDict(v) /\ v.t = "str"
IsInt(v) == ~IsDict(v) /\ v.t = "int"
IsList(v) == ~IsDict(v) /\ v.t = "list"

\* bool(v): None, "", 0, False, {} and [] are false
Truthy(v) ==
    IF IsDict(v) THEN DOMAIN v # {}
    ELSE CASE v.t = "None" -> FALSE
           [] v.t = "str"  -> v.s # ""
           [] v.t = "int"  -> v.n # 0
           [] v.t = "bool" -> v.b
           [] v.t = "list" -> Len(v.l) > 0
           [] OTHER -> TRUE

\* a or b
Or(a, b) == IF Truthy(a) THEN a ELSE b

\* d.get(k, dflt) and d.get(k) on a dict d
GetD(d, k, dflt) == IF k \in DOMAIN d THEN d[k] ELSE dflt
Get(d, k) == GetD(d, k, None)

\* pieces of an f-string: literal text and a formatted value
Lit(s) == [lit |-> s]
Fmt(v) == [fmt |-> v]

\* the two ways a call ends
Raised(exc, msg) == [raised |-> TRUE, exc |-> exc, msg |-> msg, value |-> None]
Returned(v) == [raised |-> FALSE, exc |-> "", msg |-> << >>, value |-> v]

AttributeError == Raised("AttributeError", <<Lit("'NoneType' object has no attribute 'get'")>>)
TypeError == Raised("TypeError", <<Lit("'NoneType' object is not iterable")>>)
KeyError(k) == Raised("KeyError", <<Fmt(Str(k))>>)
ValidationError(cls) == Raised("ValidationError", <<Lit("validation error for "), Lit(cls)>>)

\* d.get(k1, {}).get(k2, {}) ... .get(kn, last)
RECURSIVE GetPath(_, _, _)
GetPath(d, keys, last) ==
    IF ~IsDict(d) THEN AttributeError
    ELSE IF Len(keys) = 1 THEN Returned(GetD(d, keys[1], last))
    ELSE GetPath(GetD(d, keys[1], EmptyDict), Tail(keys), last)

\* the first key of keys that d lacks, "" when it has them all (d[k] lookups)
RECURSIVE FirstMissing(_, _)
FirstMissing(d, keys) ==
    IF keys = << >> THEN ""
    ELSE IF keys[1] \notin DOMAIN d THEN keys[1]
    ELSE FirstMissing(d, Tail(keys))

----------------------------------------------------------------------------
(* GitHubClient                                                            *)

NoRequest == [kind |-> "none", root |-> "", variables |-> EmptyDict]
Request(kind, root, variables) == [kind |-> kind, root |-> root, variables |-> variables]
Send(req) == [raised |-> FALSE, exc |-> "", msg |-> << >>, value |-> req]

\* the attributes __init__ sets on a client that holds the credential tok
ClientObject(tok) ==
    [token |-> tok,
     base_url |-> "https://api.github.com/graphql",
     headers |-> [Authorization |-> <<Lit("Bearer "), Fmt(tok)>>,
                  ContentType |-> <<Lit("application/json")>>,
                  Accept |-> <<Lit("application/vnd.github.v3+json")>>]]

\* GitHubClient.__init__ with "os.getenv(...) or token": the environment first
GitHubClient_init_env_first(token, environ) ==
    LET tok == Or(environ, token)
    IN  IF ~Truthy(tok)
        THEN Raised("ValueError", <<Lit("GitHub token is required. Set GITHUB_TOKEN environment variable.")>>)
        ELSE Returned(ClientObject(tok))

\* GitHubClient.__init__: the client with its credential, or ValueError
GitHubClient_init(token, environ) ==
    LET tok == Or(token, environ)
    IN  IF ~Truthy(tok)
        THEN Raised("ValueError", <<Lit("GitHub token is required. Set GITHUB_TOKEN environment variable.")>>)
        ELSE Returned(ClientObject(tok))

\* a response of the executor: post raised, or a status and a JSON body
Response(exc, status, body) == [exc |-> exc, status |-> status, body |-> body]

\* _execute_query with "if data.get('errors'):" for "if 'errors' in data:"
execute_query_truthy_errors(resp) ==
    IF resp.exc # "" THEN Raised(resp.exc, <<Lit("transport")>>)
    ELSE IF ~(resp.status >= 200 /\ resp.status <= 299)
         THEN Raised("HTTPStatusError", <<Lit("status "), Fmt(Num(resp.status))>>)
    ELSE IF Truthy(Get(resp.body, "errors"))
         THEN Raised("Exception", <<Lit("GraphQL errors: "), Fmt(resp.body["errors"])>>)
    ELSE Returned(GetD(resp.body, "data", EmptyDict))

\* _execute_query after the post: raise_for_status, errors check, data
execute_query(resp) ==
    IF resp.exc # "" THEN Raised(resp.exc, <<Lit("transport")>>)
    ELSE IF ~(resp.status >= 200 /\ resp.status <= 299)
         THEN Raised("HTTPStatusError", <<Lit("status "), Fmt(Num(resp.status))>>)
    ELSE IF "errors" \in DOMAIN resp.body
         THEN Raised("Exception", <<Lit("GraphQL errors: "), Fmt(resp.body["errors"])>>)
    ELSE Returned(GetD(resp.body, "data", EmptyDict))

\* state="open" if "public" in project else "private"
ProjectState_present(project) == IF "public" \in DOMAIN project THEN "open" ELSE "private"

\* state="open" if project.get("public") else "private"
ProjectState(project) == IF Truthy(Get(project, "public")) THEN "open" ELSE "private"

\* GitHubProject(id=project["id"], ...), with pydantic's field validation
MakeProject(project) ==
    IF ~IsDict(project) THEN TypeError
    ELSE LET missing == FirstMissing(project, <<"id", "number", "title", "url", "owner">>)
         IN  IF missing # "" THEN KeyError(missing)
             ELSE IF ~(IsStr(project["id"]) /\ IsInt(project["number"]) /\ IsStr(project["title"])
                       /\ IsStr(project["url"]) /\ IsDict(project["owner"])
                       /\ (IsStr(Get(project, "shortDescription"))
                           \/ Get(project, "shortDescription") = None))
                  THEN ValidationError("GitHubProject")
             ELSE Returned([cls |-> "GitHubProject",
                            id |-> project["id"],
                            number |-> project["number"],
                            title |-> project["title"],
                            body |-> Get(project, "shortDescription"),
                            state |-> ProjectState(project),
                            url |-> project["url"],
                            owner |-> project["owner"]])

\* [GitHubProject(...) for project in projects_data]
RECURSIVE MakeProjects(_)
MakeProjects(nodes) ==
    IF nodes = << >> THEN Returned(List(<< >>))
    ELSE LET head == MakeProject(nodes[1])
         IN  IF head.raised THEN head
             ELSE LET rest == MakeProjects(Tail(nodes))
                  IN  IF rest.raised THEN rest
                      ELSE Returned(List(<<head.value>> \o rest.value.l))

\* list_projects with "if repo:" for "if repo and owner:"
list_projects_request_repo_alone(owner, repo) ==
    IF Truthy(repo)
    THEN Send(Request("query", "repository", [owner |-> owner, repo |-> repo]))
    ELSE IF Truthy(owner)
    THEN Send(Request("query", "repositoryOwner", [owner |-> owner]))
    ELSE Raised("ValueError", <<Lit("Either 'owner' or both 'owner' and 'repo' must be provided")>>)

\* list_projects up to the post: which query it issues, or ValueError
list_projects_request(owner, repo) ==
    IF Truthy(repo) /\ Truthy(owner)
    THEN Send(Request("query", "repository", [owner |-> owner, repo |-> repo]))
    ELSE IF Truthy(owner)
    THEN Send(Request("query", "repositoryOwner", [owner |-> owner]))
    ELSE Raised("ValueError", <<Lit("Either 'owner' or both 'owner' and 'repo' must be provided")>>)

\* list_projects after the post
list_projects_result(owner, repo, resp) ==
    LET data == execute_query(resp)
        root == IF Truthy(repo) /\ Truthy(owner) THEN "repository" ELSE "repositoryOwner"
    IN  IF data.raised THEN data
        ELSE LET projects_data == GetPath(data.value, <<root, "projectsV2", "nodes">>, List(<< >>))
             IN  IF projects_data.raised THEN projects_data
                 ELSE IF ~IsList(projects_data.value) THEN TypeError
                 ELSE MakeProjects(projects_data.value.l)

\* get_project up to the post
get_project_request(project_id) ==
    Send(Request("query", "node:ProjectV2", [projectId |-> project_id]))

\* get_project with "if project_data is None:" for "if not project_data:"
get_project_result_is_none(project_id, resp) ==
    LET data == execute_query(resp)
    IN  IF data.raised THEN data
        ELSE IF ~IsDict(data.value) THEN AttributeError
        ELSE LET project_data == Get(data.value, "node")
             IN  IF project_data = None
                 THEN Raised("ValueError", <<Lit("Project with ID "), Fmt(project_id), Lit(" not found")>>)
                 ELSE MakeProject(project_data)

\* get_project after the post
get_project_result(project_id, resp) ==
    LET data == execute_query(resp)
    IN  IF data.raised THEN data
        ELSE IF ~IsDict(data.value) THEN AttributeError
        ELSE LET project_data == Get(data.value, "node")
             IN  IF ~Truthy(project_data)
                 THEN Raised("ValueError", <<Lit("Project with ID "), Fmt(project_id), Lit(" not found")>>)
                 ELSE MakeProject(project_data)

\* the dict comprehension without its "if" clause
FlattenNode_unfiltered(acc, field_value) ==
    IF ~IsDict(field_value) THEN AttributeError
    ELSE LET field == GetD(field_value, "field", EmptyDict)
         IN  IF ~IsDict(field) THEN AttributeError
             ELSE IF ~IsStr(GetD(field, "name", Str(""))) THEN ValidationError("GitHubProjectItem")
             ELSE Returned((GetD(field, "name", Str("")).s :>
                               Or(Get(field_value, "text"),
                                  Or(Get(field_value, "number"), Get(field_value, "name"))))
                           @@ acc)

\* one field-value node of the dict comprehension: acc with the node's entry
\* added when its field name is truthy
FlattenNode(acc, field_value) ==
    IF ~IsDict(field_value) THEN AttributeError
    ELSE LET field == GetD(field_value, "field", EmptyDict)
         IN  IF ~IsDict(field) THEN AttributeError
             ELSE IF ~Truthy(Get(field, "name")) THEN Returned(acc)
             ELSE IF ~IsStr(Get(field, "name")) THEN ValidationError("GitHubProjectItem")
             ELSE Returned((GetD(field, "name", Str("")).s :>
                               Or(Get(field_value, "text"),
                                  Or(Get(field_value, "number"), Get(field_value, "name"))))
                           @@ acc)

\* field_values={... for field_value in nodes if ...}: later nodes overwrite
RECURSIVE FlattenFieldValues(_, _)
FlattenFieldValues(acc, nodes) ==
    IF nodes = << >> THEN Returned(acc)
    ELSE LET head == FlattenNode(acc, nodes[1])
         IN  IF head.raised THEN head
             ELSE FlattenFieldValues(head.value, Tail(nodes))

\* GitHubProjectItem(id=..., type=..., content=..., field_values=..., project=...)
\* with pydantic's field validation; field_values is the outcome of evaluating
\* the field_values argument
MakeProjectItem(item, field_values, project_id) ==
    IF ~IsDict(item) THEN TypeError
    ELSE LET missing == FirstMissing(item, <<"id", "type">>)
         IN  IF missing # "" THEN KeyError(missing)
             ELSE IF field_values.raised THEN field_values
             ELSE IF ~(IsStr(item["id"]) /\ IsStr(item["type"])
                       /\ (IsDict(Get(item, "content")) \/ Get(item, "content") = None)
                       /\ IsDict(field_values.value))
                  THEN ValidationError("GitHubProjectItem")
             ELSE Returned([cls |-> "GitHubProjectItem",
                            id |-> item["id"],
                            type |-> item["type"],
                            content |-> Get(item, "content"),
                            field_values |-> field_values.value,
                            project |-> [id |-> project_id]])

\* the field_values argument of list_project_items for one item
ItemFieldValues(item) ==
    LET nodes == GetPath(item, <<"fieldValues", "nodes">>, List(<< >>))
    IN  IF nodes.raised THEN nodes
        ELSE IF ~IsList(nodes.value) THEN TypeError
        ELSE FlattenFieldValues(EmptyDict, nodes.value.l)

\* [GitHubProjectItem(...) for item in items_data]
RECURSIVE MakeProjectItems(_, _)
MakeProjectItems(items, project_id) ==
    IF items = << >> THEN Returned(List(<< >>))
    ELSE LET head == IF ~IsDict(items[1]) THEN TypeError
                     ELSE MakeProjectItem(items[1], ItemFieldValues(items[1]), project_id)
         IN  IF head.raised THEN head
             ELSE LET rest == MakeProjectItems(Tail(items), project_id)
                  IN  IF rest.raised THEN rest
                      ELSE Returned(List(<<head.value>> \o rest.value.l))

\* list_project_items up to the post
list_project_items_request(project_id) ==
    Send(Request("query", "node:ProjectV2.items", [projectId |-> project_id]))

\* list_project_items after the post
list_project_items_result(project_id, resp) ==
    LET data == execute_query(resp)
    IN  IF data.raised THEN data
        ELSE LET items_data == GetPath(data.value, <<"node", "items", "nodes">>, List(<< >>))
             IN  IF items_data.raised THEN items_data
                 ELSE IF ~IsList(items_data.value) THEN TypeError
                 ELSE MakeProjectItems(items_data.value.l, project_id)

\* create_project_item with "title": title, the default dropped
create_project_item_request_no_default(project_id, content_type, content_id, title, body) ==
    IF content_type = Str("DRAFT_ISSUE")
    THEN Send(Request("mutation", "addProjectV2DraftIssue",
                      [projectId |-> project_id, title |-> title, body |-> body]))
    ELSE IF ~Truthy(content_id)
    THEN Raised("ValueError", <<Lit("content_id is required for non-draft issues")>>)
    ELSE Send(Request("mutation", "addProjectV2ItemById",
                      [projectId |-> project_id, contentId |-> content_id]))

\* create_project_item up to the post: the mutation it issues, or ValueError
create_project_item_request(project_id, content_type, content_id, title, body) ==
    IF content_type = Str("DRAFT_ISSUE")
    THEN Send(Request("mutation", "addProjectV2DraftIssue",
                      [projectId |-> project_id,
                       title |-> Or(title, Str("New Draft Issue")),
                       body |-> body]))
    ELSE IF ~Truthy(content_id)
    THEN Raised("ValueError", <<Lit("content_id is required for non-draft issues")>>)
    ELSE Send(Request("mutation", "addProjectV2ItemById",
                      [projectId |-> project_id, contentId |-> content_id]))

\* create_project_item after the post
create_project_item_result(project_id, content_type, resp) ==
    LET data == execute_query(resp)
        path == IF content_type = Str("DRAFT_ISSUE")
                THEN <<"addProjectV2DraftIssue", "projectItem">>
                ELSE <<"addProjectV2ItemById", "item">>
    IN  IF data.raised THEN data
        ELSE LET item_data == GetPath(data.value, path, None)
             IN  IF item_data.raised THEN item_data
                 ELSE IF ~Truthy(item_data.value)
                 THEN Raised("Exception", <<Lit("Failed to create project item")>>)
                 ELSE MakeProjectItem(item_data.value, Returned(EmptyDict), project_id)

\* update_project_item that writes the field values upstream
update_project_item_request_writes(project_id, item_id, field_updates) ==
    Send(Request("mutation", "updateProjectV2ItemFieldValue",
                 [itemId |-> item_id,
                  nodes |-> <<[field |-> [name |-> Str("Status")], name |-> Str("Todo")]>>]))

\* update_project_item up to the post: a read of the item, never a mutation
update_project_item_request(project_id, item_id, field_updates) ==
    Send(Request("query", "node:ProjectV2Item", [itemId |-> item_id]))

\* update_project_item after the post
update_project_item_result(project_id, item_id, field_updates, resp) ==
    LET data == execute_query(resp)
    IN  IF data.raised THEN data
        ELSE IF ~IsDict(data.value) THEN AttributeError
        ELSE LET item_data == Get(data.value, "node")
             IN  IF ~Truthy(item_data)
                 THEN Raised("ValueError", <<Lit("Project item with ID "), Fmt(item_id), Lit(" not found")>>)
                 ELSE MakeProjectItem(item_data, Returned(field_updates), project_id)

\* delete_project_item up to the post
delete_project_item_request(project_id, item_id) ==
    Send(Request("mutation", "deleteProjectV2Item",
                 [projectId |-> project_id, itemId |-> item_id]))

\* delete_project_item after the post
delete_project_item_result(project_id, item_id, resp) ==
    LET data == execute_query(resp)
    IN  IF data.raised THEN data
        ELSE LET deleted == GetPath(data.value, <<"deleteProjectV2Item", "deletedItemId">>, None)
             IN  IF deleted.raised THEN deleted
                 ELSE Returned(Bool(Truthy(deleted.value)))

----------------------------------------------------------------------------
(* server.py: the dispatcher                                               *)

\* _handle_unknown_tool
handle_unknown_tool(name) == Raised("ValueError", <<Lit("Unknown tool: "), Lit(name)>>)

\* if arguments is None: arguments = {}
Arguments(arguments) == IF arguments = None THEN EmptyDict ELSE arguments

\* handle_call_tool whose else branch tries list_projects instead of raising
handle_call_tool_request_best_effort(name, arguments, environ) ==
    LET args == Arguments(arguments)
        github_client == GitHubClient_init(None, environ)
        missing(keys) == FirstMissing(args, keys)
    IN  IF github_client.raised THEN github_client
        ELSE CASE name = "get_project" ->
                    IF missing(<<"project_id">>) # "" THEN KeyError(missing(<<"project_id">>))
                    ELSE get_project_request(args["project_id"])
               [] name = "list_project_items" ->
                    IF missing(<<"project_id">>) # "" THEN KeyError(missing(<<"project_id">>))
                    ELSE list_project_items_request(args["project_id"])
               [] name = "create_project_item" ->
                    IF missing(<<"project_id", "content_type">>) # ""
                    THEN KeyError(missing(<<"project_id", "content_type">>))
                    ELSE create_project_item_request(args["project_id"], args["content_type"],
                             Get(args, "content_id"), Get(args, "title"), Get(args, "body"))
               [] name = "update_project_item" ->
                    IF missing(<<"project_id", "item_id">>) # ""
                    THEN KeyError(missing(<<"project_id", "item_id">>))
                    ELSE update_project_item_request(args["project_id"], args["item_id"],
                             GetD(args, "field_updates", EmptyDict))
               [] name = "delete_project_item" ->
                    IF missing(<<"project_id", "item_id">>) # ""
                    THEN KeyError(missing(<<"project_id", "item_id">>))
                    ELSE delete_project_item_request(args["project_id"], args["item_id"])
               [] OTHER -> list_projects_request(Get(args, "owner"), Get(args, "repo"))

\* handle_call_tool that reads every argument with arguments.get(k)
handle_call_tool_request_lenient(name, arguments, environ) ==
    LET args == Arguments(arguments)
        github_client == GitHubClient_init(None, environ)
    IN  IF github_client.raised THEN github_client
        ELSE CASE name = "list_projects" ->
                    Send(Request("query", "repositoryOwner", [owner |-> Get(args, "owner")]))
               [] name = "get_project" -> get_project_request(Get(args, "project_id"))
               [] name = "list_project_items" ->
                    list_project_items_request(Get(args, "project_id"))
               [] name = "create_project_item" ->
                    create_project_item_request(Get(args, "project_id"), Str("DRAFT_ISSUE"),
                        Get(args, "content_id"), Get(args, "title"), Get(args, "body"))
               [] name = "update_project_item" ->
                    update_project_item_request(Get(args, "project_id"), Get(args, "item_id"),
                        GetD(args, "field_updates", EmptyDict))
               [] name = "delete_project_item" ->
                    delete_project_item_request(Get(args, "project_id"), Get(args, "item_id"))
               [] OTHER -> handle_unknown_tool(name)

\* handle_call_tool up to the post: the client is built, the arguments are
\* looked up (arguments[k] raises KeyError) and the client method is entered
handle_call_tool_request(name, arguments, environ) ==
    LET args == Arguments(arguments)
        github_client == GitHubClient_init(None, environ)
        missing(keys) == FirstMissing(args, keys)
    IN  IF github_client.raised THEN github_client
        ELSE CASE name = "list_projects" ->
                    list_projects_request(Get(args, "owner"), Get(args, "repo"))
               [] name = "get_project" ->
                    IF missing(<<"project_id">>) # "" THEN KeyError(missing(<<"project_id">>))
                    ELSE get_project_request(args["project_id"])
               [] name = "list_project_items" ->
                    IF missing(<<"project_id">>) # "" THEN KeyError(missing(<<"project_id">>))
                    ELSE list_project_items_request(args["project_id"])
               [] name = "create_project_item" ->
                    IF missing(<<"project_id", "content_type">>) # ""
                    THEN KeyError(missing(<<"project_id", "content_type">>))
                    ELSE create_project_item_request(args["project_id"], args["content_type"],
                             Get(args, "content_id"), Get(args, "title"), Get(args, "body"))
               [] name = "update_project_item" ->
                    IF missing(<<"project_id", "item_id">>) # ""
                    THEN KeyError(missing(<<"project_id", "item_id">>))
                    ELSE update_project_item_request(args["project_id"], args["item_id"],
                             GetD(args, "field_updates", EmptyDict))
               [] name = "delete_project_item" ->
                    IF missing(<<"project_id", "item_id">>) # ""
                    THEN KeyError(missing(<<"project_id", "item_id">>))
                    ELSE delete_project_item_request(args["project_id"], args["item_id"])
               [] OTHER -> handle_unknown_tool(name)

\* handle_call_tool whose client posts the request again when the post raised
handle_call_tool_result_retry(name, arguments, resp) ==
    LET args == Arguments(arguments)
    IN  IF resp.exc # "" THEN handle_call_tool_request(name, arguments, Str("token"))
        ELSE CASE name = "list_projects" ->
                    list_projects_result(Get(args, "owner"), Get(args, "repo"), resp)
               [] name = "get_project" -> get_project_result(args["project_id"], resp)
               [] name = "list_project_items" -> list_project_items_result(args["project_id"], resp)
               [] name = "create_project_item" ->
                    create_project_item_result(args["project_id"], args["content_type"], resp)
               [] name = "update_project_item" ->
                    update_project_item_result(args["project_id"], args["item_id"],
                        GetD(args, "field_updates", EmptyDict), resp)
               [] name = "delete_project_item" ->
                    delete_project_item_result(args["project_id"], args["item_id"], resp)
               [] OTHER -> handle_unknown_tool(name)

\* handle_call_tool after the post: the suspended client method resumes
handle_call_tool_result(name, arguments, resp) ==
    LET args == Arguments(arguments)
    IN  CASE name = "list_projects" ->
                list_projects_result(Get(args, "owner"), Get(args, "repo"), resp)
          [] name = "get_project" -> get_project_result(args["project_id"], resp)
          [] name = "list_project_items" -> list_project_items_result(args["project_id"], resp)
          [] name = "create_project_item" ->
                create_project_item_result(args["project_id"], args["content_type"], resp)
          [] name = "update_project_item" ->
                update_project_item_result(args["project_id"], args["item_id"],
                    GetD(args, "field_updates", EmptyDict), resp)
          [] name = "delete_project_item" ->
                delete_project_item_result(args["project_id"], args["item_id"], resp)
          [] OTHER -> handle_unknown_tool(name)

\* the classes "except Exception" catches, among those the model raises
ExceptionClasses ==
    {"Exception", "ValueError", "KeyError", "AttributeError", "TypeError",
     "ValidationError", "ConnectError", "HTTPStatusError"}

\* except ValueError as e
Caught_value_error(exc) == exc = "ValueError"

\* except Exception as e
Caught(exc) == exc \in ExceptionClasses

TextContent(text) == [type |-> "text", text |-> text]

\* what handle_call_tool returns: [TextContent(text=str(result))], or
\* [TextContent(text=f"Error: {e!s}")] from the except clause; an exception
\* the clause does not catch escapes to the caller
handle_call_tool_return(out) ==
    IF ~out.raised THEN [escaped |-> "", content |-> <<TextContent(<<Fmt(out.value)>>)>>]
    ELSE IF Caught(out.exc)
    THEN [escaped |-> "", content |-> <<TextContent(<<Lit("Error: ")>> \o out.msg)>>]
    ELSE [escaped |-> out.exc, content |-> << >>]

----------------------------------------------------------------------------
(* tools.py: the catalogue                                                 *)

Tool(name, required, optional) == [name |-> name, required |-> required, optional |-> optional]

\* TOOLS: each tool's name and the required and the other properties of its
\* inputSchema
TOOLS ==
    <<Tool("list_projects", {"owner"}, {"repo"}),
      Tool("get_project", {"project_id"}, {}),
      Tool("list_project_items", {"project_id"}, {}),
      Tool("create_project_item", {"project_id", "content_type"}, {"content_id", "title", "body"}),
      Tool("update_project_item", {"project_id", "item_id"}, {"field_updates"}),
      Tool("delete_project_item", {"project_id", "item_id"}, {})>>

----------------------------------------------------------------------------
(* The environment: callers' inputs and GitHub's answers                   *)

MaxProjects == 2    \* project nodes in one list_projects response
MaxNodes == 3       \* field-value nodes of one item
MaxSent == 2        \* requests one invocation may issue before the model stops it

Calls == {1, 2}
ItemOrder == <<"I1", "I2">>
ItemIds == {ItemOrder[i] : i \in DOMAIN ItemOrder}

ToolNames ==
    {"list_projects", "get_project", "list_project_items", "create_project_item",
     "update_project_item", "delete_project_item", "no_such_tool"}

\* every dict that takes at most one entry from each of the sets of entries
Pick(entries) == {EmptyDict} \cup entries
Join(as, bs) == {a @@ b : a \in as, b \in bs}

ArgumentSets(name) ==
    CASE name = "list_projects" ->
            Join(Pick({"owner" :> v : v \in {Str(""), Str("octo")}}),
                 Pick({"repo" :> v : v \in {Str(""), Str("repo")}}))
      [] name = "get_project" -> Pick({"project_id" :> Str("P1")})
      [] name = "list_project_items" -> Pick({"project_id" :> v : v \in {Str("P1"), Str("PX")}})
      [] name = "create_project_item" ->
            Pick({"project_id" :> Str("P1")})
            \cup Join({"project_id" :> Str("P1")},
                      Join({"content_type" :> Str("DRAFT_ISSUE")},
                           Join(Pick({"title" :> v : v \in {Str(""), Str("T")}}),
                                Pick({"content_id" :> Str("C1")})))
                      \cup Join({"content_type" :> Str("ISSUE")},
                                Pick({"content_id" :> v : v \in {Str(""), Str("C1")}})))
      [] name = "update_project_item" ->
            Pick({"project_id" :> Str("P1")})
            \cup Join({("project_id" :> Str("P1")) @@ ("item_id" :> Str(i)) : i \in ItemIds},
                      Pick({"field_updates" :> [Status |-> Str("Todo")]}))
            \cup {[project_id |-> Str("P1"), item_id |-> Str("I1"), field_updates |-> None]}
      [] name = "delete_project_item" ->
            Pick({"item_id" :> Str("I1")})
            \cup {("project_id" :> Str("P1")) @@ ("item_id" :> Str(i)) : i \in ItemIds}
      [] OTHER -> {EmptyDict}

\* a project node as the queries select it, with its public flag or without
ProjectNode(public) ==
    [id |-> Str("P1"), number |-> Num(1), title |-> Str("Board"),
     shortDescription |-> None, url |-> Str("https://github.com/orgs/octo/projects/1"),
     owner |-> [name |-> Str("octo")]] @@ public

ProjectNodes ==
    {ProjectNode(p) : p \in Pick({"public" :> v : v \in {Bool(TRUE), Bool(FALSE), None}})}

RECURSIVE SeqsUpTo(_, _)
SeqsUpTo(S, n) ==
    IF n = 0 THEN {<< >>}
    ELSE LET shorter == SeqsUpTo(S, n - 1)
         IN  shorter \cup {Append(q, x) : q \in shorter, x \in S}

\* an error-free body with the given data
Ok(data) == Response("", 200, [data |-> data])

\* answers any request can get: post fails, non-2xx status, GraphQL errors
\* (with or without entries, data null or not), data null, data absent
Failures ==
    {Response("ConnectError", 0, EmptyDict),
     Response("", 401, [message |-> Str("Bad credentials")]),
     Response("", 200, [errors |-> List(<<[message |-> Str("NOT_FOUND")]>>), data |-> None]),
     Response("", 200, [errors |-> List(<< >>), data |-> EmptyDict]),
     Ok(None),
     Response("", 200, EmptyDict)}

\* the content GitHub reports for an item
Content(item) ==
    IF item.type = "DRAFT_ISSUE" THEN [id |-> Str("D"), title |-> item.title, body |-> None]
    ELSE [id |-> item.content_id, number |-> Num(7), title |-> Str("Issue"),
          body |-> None, state |-> Str("OPEN"), url |-> Str("https://github.com/octo/repo/issues/7")]

\* an item node as list_project_items selects it
ItemNode(id, item) ==
    [id |-> Str(id), type |-> Str(item.type), content |-> Content(item),
     fieldValues |-> [nodes |-> List(item.nodes)]]

\* an item node as the mutations and update_project_item select it
ItemPayload(id, item) == [id |-> Str(id), type |-> Str(item.type), content |-> Content(item)]

\* an item on GitHub's side: its kind, its content and its field-value nodes
Item(type, title, content_id, nodes) ==
    [type |-> type, title |-> title, content_id |-> content_id, nodes |-> nodes]

\* newly created items carry no field values
NewItem(type, title, content_id) == Item(type, title, content_id, << >>)

\* the first item id GitHub has not handed out, "" when none is left
FreeId(rem) ==
    LET free == SelectSeq(ItemOrder, LAMBDA i : i \notin DOMAIN rem)
    IN  IF free = << >> THEN "" ELSE free[1]

Exchange(resp, rem) == [resp |-> resp, remote |-> rem]

\* GitHub's answers to a request, each with the state it leaves behind:
\* only a mutation it carries out changes the items
Answers(req, rem) ==
    LET v == req.variables
        unchanged(bodies) == {Exchange(b, rem) : b \in bodies}
    IN  unchanged(Failures) \cup
        CASE req.root \in {"repository", "repositoryOwner"} ->
                unchanged({Ok(EmptyDict), Ok(req.root :> None),
                           Ok(req.root :> [projectsV2 |-> [nodes |-> None]])}
                          \cup {Ok(req.root :> [projectsV2 |-> [nodes |-> List(ps)]]) :
                                   ps \in SeqsUpTo(ProjectNodes, MaxProjects)})
          [] req.root = "node:ProjectV2" ->
                unchanged({Ok(EmptyDict), Ok([node |-> None]), Ok([node |-> EmptyDict]),
                           Ok([node |-> [id |-> Str("P1"), number |-> Num(1)]])}
                          \cup {Ok([node |-> p]) : p \in ProjectNodes})
          [] req.root = "node:ProjectV2.items" ->
                unchanged({Ok(EmptyDict), Ok([node |-> None]), Ok([node |-> EmptyDict])}
                          \cup IF v["projectId"] # Str("P1") THEN {}
                               ELSE {Ok([node |-> [items |-> [nodes |-> List(
                                        [n \in 1..Len(SelectSeq(ItemOrder, LAMBDA i : i \in DOMAIN rem)) |->
                                            LET id == SelectSeq(ItemOrder, LAMBDA i : i \in DOMAIN rem)[n]
                                            IN  ItemNode(id, rem[id])])]]])})
          [] req.root = "node:ProjectV2Item" ->
                unchanged({Ok(EmptyDict), Ok([node |-> None]), Ok([node |-> EmptyDict])}
                          \cup IF ~(IsStr(v["itemId"]) /\ v["itemId"].s \in DOMAIN rem) THEN {}
                               ELSE {Ok([node |-> ItemPayload(v["itemId"].s, rem[v["itemId"].s])])})
          [] req.root = "addProjectV2DraftIssue" ->
                unchanged({Ok(EmptyDict), Ok([addProjectV2DraftIssue |-> None]),
                           Ok([addProjectV2DraftIssue |-> [projectItem |-> None]])})
                \cup IF v["projectId"] # Str("P1") \/ FreeId(rem) = "" THEN {}
                     ELSE LET item == NewItem("DRAFT_ISSUE", v["title"], None)
                          IN  {Exchange(Ok([addProjectV2DraftIssue |->
                                               [projectItem |-> ItemPayload(FreeId(rem), item)]]),
                                        (FreeId(rem) :> item) @@ rem)}
          [] req.root = "addProjectV2ItemById" ->
                unchanged({Ok(EmptyDict), Ok([addProjectV2ItemById |-> None]),
                           Ok([addProjectV2ItemById |-> [item |-> None]])})
                \cup IF v["projectId"] # Str("P1") \/ FreeId(rem) = "" THEN {}
                     ELSE LET item == NewItem("ISSUE", None, v["contentId"])
                          IN  {Exchange(Ok([addProjectV2ItemById |->
                                               [item |-> ItemPayload(FreeId(rem), item)]]),
                                        (FreeId(rem) :> item) @@ rem)}
          [] req.root = "deleteProjectV2Item" ->
                unchanged({Ok(EmptyDict), Ok([deleteProjectV2Item |-> None]),
                           Ok([deleteProjectV2Item |-> EmptyDict]),
                           Ok([deleteProjectV2Item |-> [deletedItemId |-> None]]),
                           Ok([deleteProjectV2Item |-> [deletedItemId |-> Str("")]])})
                \cup IF ~(IsStr(v["itemId"]) /\ v["itemId"].s \in DOMAIN rem) THEN {}
                     ELSE {Exchange(Ok([deleteProjectV2Item |-> [deletedItemId |-> v["itemId"]]]),
                                    [i \in DOMAIN rem \ {v["itemId"].s} |-> rem[i]])}
          [] req.root = "updateProjectV2ItemFieldValue" ->
                IF ~(IsStr(v["itemId"]) /\ v["itemId"].s \in DOMAIN rem) THEN {}
                ELSE {Exchange(Ok([node |-> ItemPayload(v["itemId"].s, rem[v["itemId"].s])]),
                               [rem EXCEPT ![v["itemId"].s].nodes = v["nodes"]])}
          [] OTHER -> {}

\* field-value nodes as list_project_items selects them: single-select, number
\* and text values, a value of a kind no fragment matches, a field without name
StatusDone == [field |-> [name |-> Str("Status")], name |-> Str("Done")]
Points3 == [field |-> [name |-> Str("Points")], number |-> Num(3)]
Points0 == [field |-> [name |-> Str("Points")], number |-> Num(0)]
NotesEmpty == [field |-> [name |-> Str("Notes")], text |-> Str("")]
NotesText == [field |-> [name |-> Str("Notes")], text |-> Str("x")]
Unnamed == [field |-> [name |-> Str("")], text |-> Str("x")]
NoField == [text |-> Str("x")]
Unmatched == EmptyDict

FieldValueNodes ==
    {StatusDone, Points3, Points0, NotesEmpty, NotesText, Unnamed, NoField, Unmatched,
     [field |-> None, text |-> Str("x")]}

InitialItems ==
    {Item("ISSUE", None, Str("C0"), ns) :
        ns \in {<<StatusDone, Points3, Unnamed>>, <<Points0, NotesEmpty>>}}

----------------------------------------------------------------------------
(* The state machine                                                       *)

NoCall == [name |-> "", arguments |-> None, tool |-> FALSE]
NoClient == [token_arg |-> None, init |-> Returned(None)]

\* GitHubClient(token) evaluated now
Constructed(token) == [token_arg |-> token, init |-> GitHubClient_init(token, env)]
NoResponse == Response("", 0, EmptyDict)
NoOutcome == Returned(None)
NoResult == [escaped |-> "", content |-> << >>]

IsRequest(out) ==
    ~out.raised /\ IsDict(out.value) /\ {"kind", "root", "variables"} \subseteq DOMAIN out.value

\* no invocation has been made yet
Idle ==
    /\ pc = [c \in Calls |-> "idle"]
    /\ client = [c \in Calls |-> NoClient]
    /\ call = [c \in Calls |-> NoCall]
    /\ request = [c \in Calls |-> NoRequest]
    /\ response = [c \in Calls |-> NoResponse]
    /\ sent = [c \in Calls |-> 0]
    /\ outcome = [c \in Calls |-> NoOutcome]
    /\ result = [c \in Calls |-> NoResult]

Init ==
    /\ env \in {None, Str(""), Str("ghp_token")}
    /\ remote \in {"I1" :> item : item \in InitialItems}
    /\ Idle

\* the caller invokes a tool: handle_call_tool runs until it returns or
\* suspends in the post of its one request
Invoke(c, name, arguments) ==
    /\ pc[c] # "awaiting"
    /\ call' = [call EXCEPT ![c] = [name |-> name, arguments |-> arguments, tool |-> TRUE]]
    /\ client' = [client EXCEPT ![c] = Constructed(None)]
    /\ response' = [response EXCEPT ![c] = NoResponse]
    /\ LET out == handle_call_tool_request(name, arguments, env)
       IN  IF IsRequest(out)
           THEN /\ pc' = [pc EXCEPT ![c] = "awaiting"]
                /\ request' = [request EXCEPT ![c] = out.value]
                /\ sent' = [sent EXCEPT ![c] = 1]
                /\ outcome' = [outcome EXCEPT ![c] = NoOutcome]
                /\ result' = [result EXCEPT ![c] = NoResult]
           ELSE /\ pc' = [pc EXCEPT ![c] = "done"]
                /\ request' = [request EXCEPT ![c] = NoRequest]
                /\ sent' = [sent EXCEPT ![c] = 0]
                /\ outcome' = [outcome EXCEPT ![c] = out]
                /\ result' = [result EXCEPT ![c] = handle_call_tool_return(out)]
    /\ UNCHANGED <<env, remote>>

\* a handler that keeps the call it serves in one module-level slot, which a
\* later invocation overwrites while this one is suspended
Respond_shared(c) ==
    /\ pc[c] = "awaiting"
    /\ \E x \in Answers(request[c], remote) :
          LET o == IF \E d \in Calls \ {c} : pc[d] = "awaiting"
                   THEN CHOOSE d \in Calls \ {c} : pc[d] = "awaiting"
                   ELSE c
              out == handle_call_tool_result(call[o].name, call[o].arguments, x.resp)
          IN  /\ remote' = x.remote
              /\ response' = [response EXCEPT ![c] = x.resp]
              /\ IF IsRequest(out)
                 THEN /\ sent[c] < MaxSent
                      /\ request' = [request EXCEPT ![c] = out.value]
                      /\ sent' = [sent EXCEPT ![c] = @ + 1]
                      /\ UNCHANGED <<pc, outcome, result>>
                 ELSE /\ pc' = [pc EXCEPT ![c] = "done"]
                      /\ outcome' = [outcome EXCEPT ![c] = out]
                      /\ result' = [result EXCEPT ![c] =
                                       IF call[c].tool THEN handle_call_tool_return(out)
                                       ELSE NoResult]
                      /\ UNCHANGED <<request, sent>>
    /\ UNCHANGED <<env, client, call>>

\* GitHub answers the request of a suspended invocation, which runs to its end
Respond(c) ==
    /\ pc[c] = "awaiting"
    /\ \E x \in Answers(request[c], remote) :
          LET out == handle_call_tool_result(call[c].name, call[c].arguments, x.resp)
          IN  /\ remote' = x.remote
              /\ response' = [response EXCEPT ![c] = x.resp]
              /\ IF IsRequest(out)
                 THEN /\ sent[c] < MaxSent
                      /\ request' = [request EXCEPT ![c] = out.value]
                      /\ sent' = [sent EXCEPT ![c] = @ + 1]
                      /\ UNCHANGED <<pc, outcome, result>>
                 ELSE /\ pc' = [pc EXCEPT ![c] = "done"]
                      /\ outcome' = [outcome EXCEPT ![c] = out]
                      /\ result' = [result EXCEPT ![c] =
                                       IF call[c].tool THEN handle_call_tool_return(out)
                                       ELSE NoResult]
                      /\ UNCHANGED <<request, sent>>
    /\ UNCHANGED <<env, client, call>>

\* the steps of invocation c
Step(c) ==
    \/ \E name \in ToolNames : \E arguments \in {None} \cup ArgumentSets(name) :
          Invoke(c, name, arguments)
    \/ Respond(c)

\* invocations one after the other: the caller waits for each result
Next == Step(1)

Spec == Init /\ [][Next]_vars

\* list_project_items on a project whose one item has any field-value nodes
InitItems ==
    /\ env = Str("ghp_token")
    /\ remote \in {"I1" :> Item("ISSUE", None, Str("C0"), ns) :
                      ns \in SeqsUpTo(FieldValueNodes, MaxNodes)}
    /\ Idle

NextItems ==
    \/ Invoke(1, "list_project_items", [project_id |-> Str("P1")])
    \/ Respond(1)

SpecItems == InitItems /\ [][NextItems]_vars

\* a caller other than the dispatcher (tests/test_server.py) builds a client,
\* with or without an explicit token
Construct(c, token) ==
    /\ pc[c] # "awaiting"
    /\ client' = [client EXCEPT ![c] = Constructed(token)]
    /\ pc' = [pc EXCEPT ![c] = "idle"]
    /\ call' = [call EXCEPT ![c] = NoCall]
    /\ request' = [request EXCEPT ![c] = NoRequest]
    /\ response' = [response EXCEPT ![c] = NoResponse]
    /\ sent' = [sent EXCEPT ![c] = 0]
    /\ outcome' = [outcome EXCEPT ![c] = NoOutcome]
    /\ result' = [result EXCEPT ![c] = NoResult]
    /\ UNCHANGED <<env, remote>>

\* that caller calls client.list_projects(owner, repo) on the client it built:
\* there is a client to call only when the constructor returned
ListProjects(c, arguments) ==
    /\ pc[c] = "idle"
    /\ client[c] # NoClient
    /\ ~client[c].init.raised
    /\ call' = [call EXCEPT ![c] = [name |-> "list_projects", arguments |-> arguments, tool |-> FALSE]]
    /\ response' = [response EXCEPT ![c] = NoResponse]
    /\ LET out == list_projects_request(Get(arguments, "owner"), Get(arguments, "repo"))
       IN  IF IsRequest(out)
           THEN /\ pc' = [pc EXCEPT ![c] = "awaiting"]
                /\ request' = [request EXCEPT ![c] = out.value]
                /\ sent' = [sent EXCEPT ![c] = 1]
                /\ outcome' = [outcome EXCEPT ![c] = NoOutcome]
           ELSE /\ pc' = [pc EXCEPT ![c] = "done"]
                /\ request' = [request EXCEPT ![c] = NoRequest]
                /\ sent' = [sent EXCEPT ![c] = 0]
                /\ outcome' = [outcome EXCEPT ![c] = out]
    /\ UNCHANGED <<env, client, remote, result>>

Tokens == {None, Str(""), Str("dummy_token_for_testing")}

NextClient ==
    \/ \E token \in Tokens : Construct(1, token)
    \/ \E arguments \in ArgumentSets("list_projects") : ListProjects(1, arguments)
    \/ \E arguments \in ArgumentSets("list_projects") : Invoke(1, "list_projects", arguments)
    \/ Respond(1)

\* clients built with and without an explicit token, by the dispatcher and by
\* a direct caller
SpecClient == Init /\ [][NextClient]_vars

\* the invocations two callers make at the same time
ConcurrentCalls ==
    {<<"list_project_items", [project_id |-> Str("P1")]>>,
     <<"list_project_items", [project_id |-> Str("PX")]>>,
     <<"create_project_item", [project_id |-> Str("P1"), content_type |-> Str("DRAFT_ISSUE"),
                               title |-> Str("T")]>>,
     <<"delete_project_item", [project_id |-> Str("P1"), item_id |-> Str("I1")]>>,
     <<"get_project", EmptyDict>>}

InitConcurrent ==
    /\ env = Str("ghp_token")
    /\ remote = ("I1" :> Item("ISSUE", None, Str("C0"), <<StatusDone>>))
    /\ Idle

\* handle_call_tool is a coroutine: a second invocation may start, and either
\* may resume, while the other is suspended in its post
NextConcurrent ==
    \E c \in Calls :
        \/ \E inv \in ConcurrentCalls : Invoke(c, inv[1], inv[2])
        \/ Respond(c)

SpecConcurrent == InitConcurrent /\ [][NextConcurrent]_vars

----------------------------------------------------------------------------
(* Properties                                                              *)

\* the arguments of invocation c as the dispatcher reads them
Args(c) == Arguments(call[c].arguments)

\* invocation c is a call of the tool that got past GitHubClient() and the
\* lookup of the required arguments, i.e. the client method was entered
Entered(c, name, required) ==
    /\ pc[c] # "idle"
    /\ call[c].name = name
    /\ Truthy(env)
    /\ required \subseteq DOMAIN Args(c)

\* invocation c has returned
Done(c, name) == pc[c] = "done" /\ call[c].name = name

\* invocation c failed before it issued any request
FailedUnsent(c, exc, msg) ==
    /\ pc[c] = "done"
    /\ outcome[c] = Raised(exc, msg)
    /\ sent[c] = 0
    /\ request[c] = NoRequest
    /\ response[c] = NoResponse

\* invocation c issued exactly this request and no other
Issued(c, req) == sent[c] = 1 /\ request[c] = req

\* an argument counts as supplied when it has a non-empty value: the methods
\* test their optional arguments for truth, so None and "" are "not provided"
Supplied(v) == v # None /\ v # Str("")

\* the response is HTTP-successful and carries no errors entry
ErrorFree(resp) ==
    /\ resp.exc = ""
    /\ resp.status \in 200..299
    /\ "errors" \notin DOMAIN resp.body

\* invocation c has returned after an error-free response whose data is a mapping
DoneErrorFree(c, name) ==
    /\ Done(c, name)
    /\ sent[c] >= 1
    /\ ErrorFree(response[c])
    /\ IsDict(GetD(response[c].body, "data", EmptyDict))

DataOf(c) == GetD(response[c].body, "data", EmptyDict)

\* C1: list_projects picks its outcome from owner and repo alone: both
\* supplied, the repository query with variables owner and repo; owner alone,
\* the repositoryOwner query with variable owner; no owner, a ValueError
\* raised with no request issued.
C1_ListProjectsSelectsQuery ==
    \A c \in Calls :
        Entered(c, "list_projects", {}) =>
            LET owner == Get(Args(c), "owner")
                repo == Get(Args(c), "repo")
            IN  /\ (Supplied(owner) /\ Supplied(repo)) =>
                      Issued(c, Request("query", "repository", [owner |-> owner, repo |-> repo]))
                /\ (Supplied(owner) /\ ~Supplied(repo)) =>
                      Issued(c, Request("query", "repositoryOwner", [owner |-> owner]))
                /\ ~Supplied(owner) =>
                      FailedUnsent(c, "ValueError",
                          <<Lit("Either 'owner' or both 'owner' and 'repo' must be provided")>>)

\* repo without owner was rejected before any request
C1_Witness ==
    /\ Entered(1, "list_projects", {"repo"})
    /\ Supplied(Args(1)["repo"])
    /\ "owner" \notin DOMAIN Args(1)
    /\ FailedUnsent(1, "ValueError",
           <<Lit("Either 'owner' or both 'owner' and 'repo' must be provided")>>)

\* C2: create_project_item with content_type DRAFT_ISSUE issues the draft
\* mutation with the supplied title, or "New Draft Issue" when none is
\* supplied, and never sends content_id; with another content_type and no
\* content_id it raises ValueError and issues no request.
C2_CreateSelectsMutation ==
    \A c \in Calls :
        Entered(c, "create_project_item", {"project_id", "content_type"}) =>
            LET a == Args(c)
                title == Get(a, "title")
            IN  /\ a["content_type"] = Str("DRAFT_ISSUE") =>
                      /\ sent[c] = 1
                      /\ request[c].kind = "mutation"
                      /\ request[c].root = "addProjectV2DraftIssue"
                      /\ DOMAIN request[c].variables = {"projectId", "title", "body"}
                      /\ request[c].variables["title"] =
                            IF Supplied(title) THEN title ELSE Str("New Draft Issue")
                /\ (a["content_type"] # Str("DRAFT_ISSUE") /\ ~Supplied(Get(a, "content_id"))) =>
                      FailedUnsent(c, "ValueError",
                          <<Lit("content_id is required for non-draft issues")>>)
                /\ (a["content_type"] # Str("DRAFT_ISSUE") /\ Supplied(Get(a, "content_id"))) =>
                      /\ sent[c] = 1
                      /\ request[c].root = "addProjectV2ItemById"

\* a draft was requested with a content_id and no title: the default title is
\* sent and the content_id is not
C2_Witness ==
    /\ Entered(1, "create_project_item", {"project_id", "content_type", "content_id"})
    /\ Args(1)["content_type"] = Str("DRAFT_ISSUE")
    /\ "title" \notin DOMAIN Args(1)
    /\ request[1].root = "addProjectV2DraftIssue"
    /\ request[1].variables["title"] = Str("New Draft Issue")

\* C3: delete_project_item returns True exactly when the response carries a
\* non-empty deletedItemId, and False, without raising, for every other
\* error-free response: deleteProjectV2Item missing or null, deletedItemId
\* null or empty.
C3_DeleteReturnsBool ==
    \A c \in Calls :
        DoneErrorFree(c, "delete_project_item") =>
            LET payload == Get(DataOf(c), "deleteProjectV2Item")
                deleted == IF IsDict(payload) THEN Get(payload, "deletedItemId") ELSE None
            IN  outcome[c] = Returned(Bool(deleted # None /\ deleted # Str("")))

\* C4: get_project and update_project_item raise the not-found ValueError
\* whenever the error-free response has node null, missing or empty, and
\* return no entity then.
C4_NotFound ==
    \A c \in Calls :
        /\ (DoneErrorFree(c, "get_project") /\ Get(DataOf(c), "node") \in {None, EmptyDict}) =>
              outcome[c] = Raised("ValueError",
                  <<Lit("Project with ID "), Fmt(Args(c)["project_id"]), Lit(" not found")>>)
        /\ (DoneErrorFree(c, "update_project_item") /\ Get(DataOf(c), "node") \in {None, EmptyDict}) =>
              outcome[c] = Raised("ValueError",
                  <<Lit("Project item with ID "), Fmt(Args(c)["item_id"]), Lit(" not found")>>)

\* get_project got a response whose node matched no fragment
C4_Witness ==
    /\ DoneErrorFree(1, "get_project")
    /\ "node" \in DOMAIN DataOf(1)
    /\ DataOf(1)["node"] = EmptyDict
    /\ outcome[1].raised
    /\ outcome[1].exc = "ValueError"

\* C5: update_project_item on an existing item issues one read query and no
\* mutation and returns a ProjectItem whose field_values is the caller's
\* field_updates; no step of the invocation changes the items GitHub holds, so
\* what list_project_items reads afterwards is what it read before.
C5_UpdateEchoesWithoutWriting ==
    [][\A c \in Calls :
          /\ (pc[c] # "awaiting" /\ pc'[c] # "idle" /\ call'[c].name = "update_project_item") =>
                remote' = remote
          /\ (pc[c] = "awaiting" /\ pc'[c] = "done" /\ call[c].name = "update_project_item") =>
                /\ remote' = remote
                /\ LET a == Args(c)
                       field_updates == GetD(a, "field_updates", EmptyDict)
                   IN  (/\ IsStr(a["item_id"])
                        /\ a["item_id"].s \in DOMAIN remote
                        /\ response'[c] = Ok([node |-> ItemPayload(a["item_id"].s, remote[a["item_id"].s])])
                        /\ IsDict(field_updates)) =>
                            /\ sent'[c] = 1
                            /\ request'[c] = Request("query", "node:ProjectV2Item", [itemId |-> a["item_id"]])
                            /\ outcome'[c] = Returned(
                                  [cls |-> "GitHubProjectItem",
                                   id |-> a["item_id"],
                                   type |-> Str(remote[a["item_id"].s].type),
                                   content |-> Content(remote[a["item_id"].s]),
                                   field_values |-> field_updates,
                                   project |-> [id |-> a["project_id"]]])]_vars

\* the update returned Status = Todo while the item on GitHub still has Status = Done
C5_Witness ==
    /\ Done(1, "update_project_item")
    /\ ~outcome[1].raised
    /\ Args(1)["item_id"] = Str("I1")
    /\ outcome[1].value.field_values = [Status |-> Str("Todo")]
    /\ request[1].kind = "query"
    /\ "I1" \in DOMAIN remote
    /\ remote["I1"].nodes = <<StatusDone, Points3, Unnamed>>

\* the item nodes and the field-value nodes of an error-free response to
\* list_project_items
ItemNodesOf(c) == GetPath(DataOf(c), <<"node", "items", "nodes">>, List(<< >>)).value.l
FieldNodesOf(item) == GetPath(item, <<"fieldValues", "nodes">>, List(<< >>)).value.l

\* the field name a field-value node resolves, None when it resolves none
FieldName(node) ==
    IF IsDict(node) /\ "field" \in DOMAIN node /\ IsDict(node["field"])
       /\ "name" \in DOMAIN node["field"]
    THEN node["field"]["name"]
    ELSE None

NamedNodes(nodes) == {j \in DOMAIN nodes : FieldName(nodes[j]) \notin {None, Str("")}}

\* C6: the field_values of every item list_project_items returns has as keys
\* exactly the non-empty field names of the item's field-value nodes; a node
\* with an empty or missing name adds no key and "" is never a key.
C6_FlattenKeys ==
    \A c \in Calls :
        (DoneErrorFree(c, "list_project_items") /\ ~outcome[c].raised) =>
            /\ Len(outcome[c].value.l) = Len(ItemNodesOf(c))
            /\ \A k \in DOMAIN ItemNodesOf(c) :
                  LET nodes == FieldNodesOf(ItemNodesOf(c)[k])
                      keys == DOMAIN outcome[c].value.l[k].field_values
                  IN  /\ keys = {FieldName(nodes[j]).s : j \in NamedNodes(nodes)}
                      /\ "" \notin keys

\* the nodes Status/Done, Points/3 and an unnamed text node gave the keys
\* Status and Points
C6_Witness ==
    /\ DoneErrorFree(1, "list_project_items")
    /\ ~outcome[1].raised
    /\ Len(ItemNodesOf(1)) = 1
    /\ FieldNodesOf(ItemNodesOf(1)[1]) = <<StatusDone, Points3, Unnamed>>
    /\ DOMAIN outcome[1].value.l[1].field_values = {"Status", "Points"}

\* the value kinds a field-value node supplies
SuppliedKinds(node) == {k \in {"text", "number", "name"} : k \in DOMAIN node /\ node[k] # None}

\* C7: for every field-value node with a non-empty field name (and no other
\* node of the item with that name) that supplies exactly one of text, number
\* and single-select name, list_project_items stores exactly that value under
\* the field name, the empty text and the number 0 included.
C7_FlattenStoresSuppliedValue ==
    \A c \in Calls :
        (DoneErrorFree(c, "list_project_items") /\ ~outcome[c].raised) =>
            \A k \in DOMAIN ItemNodesOf(c) :
                LET nodes == FieldNodesOf(ItemNodesOf(c)[k])
                    field_values == outcome[c].value.l[k].field_values
                IN  \A j \in NamedNodes(nodes) :
                        ((\A i \in NamedNodes(nodes) :
                              FieldName(nodes[i]) = FieldName(nodes[j]) => i = j)
                         /\ Cardinality(SuppliedKinds(nodes[j])) = 1) =>
                            \E kind \in SuppliedKinds(nodes[j]) :
                                field_values[FieldName(nodes[j]).s] = nodes[j][kind]

\* the visibility of a project node: open for public true, private otherwise
StateOf(node) == IF "public" \in DOMAIN node /\ node["public"] = Bool(TRUE) THEN "open" ELSE "private"

\* C8: every Project that list_projects or get_project returns has state
\* "open" when its node's public flag is true and "private" when the flag is
\* false, null or absent.
C8_ProjectState ==
    \A c \in Calls :
        /\ (DoneErrorFree(c, "list_projects") /\ ~outcome[c].raised) =>
              LET nodes == GetPath(DataOf(c), <<request[c].root, "projectsV2", "nodes">>,
                                   List(<< >>)).value.l
              IN  /\ Len(outcome[c].value.l) = Len(nodes)
                  /\ \A k \in DOMAIN nodes :
                        /\ outcome[c].value.l[k].state = StateOf(nodes[k])
                        /\ outcome[c].value.l[k].state \in {"open", "private"}
        /\ (DoneErrorFree(c, "get_project") /\ ~outcome[c].raised) =>
              /\ outcome[c].value.state = StateOf(DataOf(c)["node"])
              /\ outcome[c].value.state \in {"open", "private"}

\* list_projects returned a public project as open and, after it, one without
\* a public flag as private
C8_Witness ==
    /\ DoneErrorFree(1, "list_projects")
    /\ ~outcome[1].raised
    /\ Len(outcome[1].value.l) = 2
    /\ outcome[1].value.l[1].state = "open"
    /\ outcome[1].value.l[2].state = "private"
    /\ "public" \notin DOMAIN DataOf(1)[request[1].root]["projectsV2"]["nodes"].l[2]

TransportClasses == {"ConnectError", "HTTPStatusError"}

\* C9: whatever the operation, an HTTP-successful response with an errors
\* entry makes the call raise Exception("GraphQL errors: <the entry>"), a
\* failed post or a non-2xx status makes it raise a transport exception of
\* another class, and in both cases nothing is returned.
C9_GraphQLErrorsRaise ==
    \A c \in Calls :
        (pc[c] = "done" /\ sent[c] >= 1) =>
            LET resp == response[c]
            IN  /\ (resp.exc = "" /\ resp.status \in 200..299 /\ "errors" \in DOMAIN resp.body) =>
                      /\ outcome[c] = Raised("Exception",
                                             <<Lit("GraphQL errors: "), Fmt(resp.body["errors"])>>)
                      /\ outcome[c].exc \notin TransportClasses
                /\ (resp.exc # "" \/ resp.status \notin 200..299) =>
                      /\ outcome[c].raised
                      /\ outcome[c].exc \in TransportClasses
                      /\ outcome[c].value = None

\* a 200 response with an errors entry was turned into the GraphQL failure
C9_Witness ==
    /\ pc[1] = "done"
    /\ sent[1] = 1
    /\ response[1].status = 200
    /\ "errors" \in DOMAIN response[1].body
    /\ outcome[1].raised
    /\ outcome[1].exc = "Exception"
    /\ outcome[1].msg[2] = Fmt(response[1].body["errors"])

CatalogueNames ==
    {"list_projects", "get_project", "list_project_items", "create_project_item",
     "update_project_item", "delete_project_item"}

\* C10: handle_call_tool lets nothing escape: whatever the name, the arguments
\* and the outcome, it returns one text content, "Error: " followed by the
\* exception's message when something was raised (no credential, unknown
\* tool, transport or GraphQL failure included) and str(result) otherwise.
C10_HandlerReturnsText ==
    \A c \in Calls :
        pc[c] = "done" =>
            /\ result[c].escaped = ""
            /\ Len(result[c].content) = 1
            /\ result[c].content[1].type = "text"
            /\ outcome[c].raised => result[c].content[1].text = <<Lit("Error: ")>> \o outcome[c].msg
            /\ ~outcome[c].raised => result[c].content[1].text = <<Fmt(outcome[c].value)>>
            /\ (\/ ~Truthy(env)
                \/ call[c].name \notin CatalogueNames
                \/ (sent[c] >= 1 /\ ~ErrorFree(response[c]))) =>
                    result[c].content[1].text[1] = Lit("Error: ")

\* a call of get_project without arguments ended in the KeyError's text
C10_Witness ==
    /\ Done(1, "get_project")
    /\ call[1].arguments = None
    /\ outcome[1].exc = "KeyError"
    /\ result[1] = [escaped |-> "", content |-> <<TextContent(<<Lit("Error: "), Fmt(Str("project_id"))>>)>>]

\* the names the catalogue declares
DeclaredNames == {TOOLS[i].name : i \in DOMAIN TOOLS}

\* the text handle_call_tool returned starts with "Error: "
ErrorResult(c) ==
    /\ result[c].escaped = ""
    /\ Len(result[c].content) = 1
    /\ result[c].content[1].text[1] = Lit("Error: ")

\* C11: with a credential, the dispatcher raises "Unknown tool" exactly for
\* the names TOOLS does not declare; an invocation under such a name issues no
\* request, calls no other operation and returns an error result.
C11_UnknownToolFailsClosed ==
    \A c \in Calls :
        pc[c] # "idle" =>
            /\ Truthy(env) =>
                  (call[c].name \notin DeclaredNames
                   <=> outcome[c] = Raised("ValueError",
                                           <<Lit("Unknown tool: "), Lit(call[c].name)>>))
            /\ call[c].name \notin DeclaredNames =>
                  /\ pc[c] = "done"
                  /\ sent[c] = 0
                  /\ request[c] = NoRequest
                  /\ outcome[c].raised
                  /\ ErrorResult(c)

\* a call under a name TOOLS does not declare ended in "Error: Unknown tool: ..."
C11_Witness ==
    /\ pc[1] = "done"
    /\ Truthy(env)
    /\ call[1].name = "no_such_tool"
    /\ sent[1] = 0
    /\ result[1].content[1].text = <<Lit("Error: "), Lit("Unknown tool: "), Lit("no_such_tool")>>

\* a credential is available: a non-empty string
Credential(v) == v # None /\ v # Str("")

\* C12: GitHubClient(token) returns a client exactly when token or
\* GITHUB_TOKEN is a non-empty string; the client holds the explicit token
\* when there is one and the environment's otherwise; with neither the
\* constructor raises ValueError and the caller has no client: it issues no
\* request.
C12_ClientNeedsCredential ==
    \A c \in Calls :
        client[c] # NoClient =>
            LET token == client[c].token_arg
                init == client[c].init
            IN  /\ ~init.raised <=> (Credential(token) \/ Credential(env))
                /\ Credential(token) =>
                      /\ init.value.token = token
                      /\ init.value.headers["Authorization"] = <<Lit("Bearer "), Fmt(token)>>
                /\ (~Credential(token) /\ Credential(env)) =>
                      /\ init.value.token = env
                      /\ init.value.headers["Authorization"] = <<Lit("Bearer "), Fmt(env)>>
                /\ init.raised =>
                      /\ init.exc = "ValueError"
                      /\ pc[c] # "awaiting"
                      /\ sent[c] = 0
                      /\ request[c] = NoRequest
                      /\ call[c].tool => (pc[c] = "done" /\ outcome[c] = init /\ ErrorResult(c))

\* an explicit token was used although GITHUB_TOKEN was set too, and a request
\* went out under it
C12_Witness ==
    /\ Credential(env)
    /\ client[1].token_arg = Str("dummy_token_for_testing")
    /\ ~client[1].init.raised
    /\ client[1].init.value.token = Str("dummy_token_for_testing")
    /\ client[1].init.value.token # env
    /\ sent[1] = 1

\* the required arguments TOOLS declares for a name
RequiredOf(name) == UNION {TOOLS[i].required : i \in {i \in DOMAIN TOOLS : TOOLS[i].name = name}}

\* invocation c gets past construction, dispatch and argument validation:
\* there is a credential, the tool is declared, its required arguments are
\* given, list_projects has an owner and a non-draft item has a content_id
ValidationPasses(c) ==
    /\ Credential(env)
    /\ call[c].name \in DeclaredNames
    /\ RequiredOf(call[c].name) \subseteq DOMAIN Args(c)
    /\ call[c].name = "list_projects" => Supplied(Args(c)["owner"])
    /\ call[c].name = "create_project_item" =>
          (Args(c)["content_type"] = Str("DRAFT_ISSUE") \/ Supplied(Get(Args(c), "content_id")))

\* C13: an invocation issues exactly one GraphQL request when its validation
\* passes and none when it fails, and never a second one, whatever response
\* (transport failure and GraphQL errors included) the first one gets.
C13_AtMostOneRequest ==
    \A c \in Calls :
        /\ sent[c] <= 1
        /\ pc[c] # "idle" => (sent[c] = 1 <=> ValidationPasses(c))
        /\ (pc[c] # "idle" /\ ~ValidationPasses(c)) =>
              (pc[c] = "done" /\ request[c] = NoRequest /\ outcome[c].raised)
        /\ (pc[c] = "done" /\ sent[c] >= 1 /\ ~ErrorFree(response[c])) =>
              (sent[c] = 1 /\ outcome[c].raised)

\* the post of an invocation's one request failed and the invocation ended
C13_Witness ==
    /\ pc[1] = "done"
    /\ call[1].name = "list_project_items"
    /\ response[1].exc = "ConnectError"
    /\ sent[1] = 1
    /\ outcome[1].exc = "ConnectError"

\* what invocation c returns when it runs alone with its own arguments and the
\* response to its own request
Alone(c) ==
    LET before == handle_call_tool_request(call[c].name, call[c].arguments, env)
    IN  IF IsRequest(before)
        THEN handle_call_tool_result(call[c].name, call[c].arguments, response[c])
        ELSE before

\* the state of invocation c
Local(c) == <<pc[c], client[c], call[c], request[c], response[c], sent[c], outcome[c], result[c]>>

\* C14: in every interleaving of two invocations, the request an invocation
\* has in flight is the one its own arguments select, the outcome and result
\* it ends with are the ones it produces alone from its own arguments and the
\* response to its own request, and every step changes the state of one
\* invocation only.
C14_NoInterference ==
    /\ [](\A c \in Calls :
            /\ pc[c] = "awaiting" =>
                  request[c] = handle_call_tool_request(call[c].name, call[c].arguments, env).value
            /\ pc[c] = "done" =>
                  /\ outcome[c] = Alone(c)
                  /\ result[c] = handle_call_tool_return(Alone(c)))
    /\ [][\E c \in Calls : \A d \in Calls \ {c} : Local(d)' = Local(d)]_vars

\* one invocation has returned the items of its project while another, on a
\* different project, is still suspended in its post
C14_Witness ==
    /\ pc[1] = "awaiting" /\ call[1] = [name |-> "list_project_items",
                                         arguments |-> [project_id |-> Str("PX")], tool |-> TRUE]
    /\ pc[2] = "done" /\ call[2] = [name |-> "list_project_items",
                                     arguments |-> [project_id |-> Str("P1")], tool |-> TRUE]
    /\ ~outcome[2].raised /\ IsList(outcome[2].value) /\ Len(outcome[2].value.l) = 1

\* the item payload of the response to invocation c of create_project_item:
\* projectItem of the draft mutation, item of the add-existing-content one
CreatedPayload(c) ==
    LET draft == Args(c)["content_type"] = Str("DRAFT_ISSUE")
        wrapper == Get(DataOf(c), IF draft THEN "addProjectV2DraftIssue" ELSE "addProjectV2ItemById")
    IN  IF IsDict(wrapper) THEN Get(wrapper, IF draft THEN "projectItem" ELSE "item") ELSE None

\* C15: after an error-free response, create_project_item raises "Failed to
\* create project item" whenever the response carries no item payload
\* (projectItem / item null or missing, under either mutation), and returns a
\* ProjectItem only when the payload is there, with empty field_values and
\* project id equal to the supplied project_id.
C15_CreateNeedsPayload ==
    \A c \in Calls :
        DoneErrorFree(c, "create_project_item") =>
            IF CreatedPayload(c) = None
            THEN outcome[c] = Raised("Exception", <<Lit("Failed to create project item")>>)
            ELSE /\ ~outcome[c].raised
                 /\ outcome[c].value.cls = "GitHubProjectItem"
                 /\ outcome[c].value.field_values = EmptyDict
                 /\ outcome[c].value.project = [id |-> Args(c)["project_id"]]

\* C17: after an error-free response whose node is null, list_project_items
\* raises a not-found error (a ValueError "... not found", neither a transport
\* nor a GraphQL failure) and returns no list.
C17_ListItemsNotFound ==
    \A c \in Calls :
        (/\ DoneErrorFree(c, "list_project_items")
         /\ "node" \in DOMAIN DataOf(c)
         /\ DataOf(c)["node"] = None) =>
            /\ outcome[c].raised
            /\ outcome[c].exc = "ValueError"
            /\ outcome[c].msg # << >>
            /\ outcome[c].msg[Len(outcome[c].msg)] = Lit(" not found")

\* C18: an invocation of a declared tool whose arguments lack one of the
\* arguments TOOLS marks as required for it returns an error result and
\* issues no request.
C18_MissingRequiredArgument ==
    \A c \in Calls :
        (/\ pc[c] # "idle"
         /\ call[c].name \in DeclaredNames
         /\ ~(RequiredOf(call[c].name) \subseteq DOMAIN Args(c))) =>
            /\ pc[c] = "done"
            /\ sent[c] = 0
            /\ request[c] = NoRequest
            /\ response[c] = NoResponse
            /\ outcome[c].raised
            /\ ErrorResult(c)

\* delete_project_item was invoked with a credential and without project_id
C18_Witness ==
    /\ Truthy(env)
    /\ pc[1] = "done"
    /\ call[1].name = "delete_project_item"
    /\ DOMAIN Args(1) = {"item_id"}
    /\ outcome[1] = KeyError("project_id")
    /\ sent[1] = 0
    /\ ErrorResult(1)

====
